---- MODULE Spec2Model ----
(***************************************************************************)
(* Model of agimus_hpp.estimation.Estimation: the frame synchronisation   *)
(* performed by the sensor callbacks, the estimation cycle driven by the  *)
(* periodic loop or by an explicit request, and the mutex that guards     *)
(* the calls into the HPP solver.                                          *)
(*                                                                         *)
(* Every callback runs in its own thread (one thread per subscribed       *)
(* topic, plus the main thread running spin).  A thread's position is     *)
(* pc[th].  A position named *_solver or est_* is a position inside the   *)
(* try block of the handler, where the thread executes calls into the     *)
(* solver.                                                                 *)
(***************************************************************************)
EXTENDS Integers, Sequences, FiniteSets, TLC

\* ------------------------------------------------------------------ bounds
\* Largest message timestamp delivered by the sensors.
MaxStamp == 2
\* Largest message timestamp delivered under Spec and SpecCycle.
MaxCycleStamp == 1
\* Largest number of names of the open frame under Spec and SpecCycle.
MaxCycleLen == 2
\* Largest number of constraint names the open frame is allowed to reach.
MaxLen == 4
\* Largest message timestamp delivered under SpecLive.
MaxLiveStamp == 1
\* Largest number of names of the open frame under SpecLive.
MaxLiveLen == 2

\* ------------------------------------------------------- sets of the model
Stamps == 0..MaxStamp
CycleStamps == 0..MaxCycleStamp
LiveStamps == 0..MaxLiveStamp
\* child_frame_id of the tag detections.
Tags == {"tagA", "tagB"}
\* Third component of the rotated unit z vector, in thousandths.
RotZs == {-1000, 0, 500}
\* Configurations of the robot, as opaque identifiers.
Configs == {"qa", "qb"}
\* Nodes of the constraint graph.
States == {"s1", "s2"}
\* rospy.get_param("default_state_id")
default_state_id == "s2"
\* Value of an attribute that has not been set (hasattr is false).
NoAttr == "unset"
\* rospy.get_param("robot_name") and hpp.robot.getRobotName()
robot_name == "talos"
\* Norms of the residual error returned by optimize, in thousandths.
ErrNorms == {9, 10, 11}
\* The threshold 1e-2 of line 131, in thousandths.
ErrThreshold == 10
\* Joint name lists of the joint state messages: j1 is a bounded joint of
\* size 1, j2 an unbounded rotation of size 2.
JsNames == {<<"j1">>, <<"j1", "j2">>}
\* Answers of getJointConfigSize for the joints.
Sizes == [{"j1", "j2"} -> {1, 2}]
\* The configuration sizes of the robot's joints.
RightSizes == [j \in {"j1", "j2"} |-> IF j = "j2" THEN 2 ELSE 1]
\* The tolerance 1e-3 of line 238, in ten-thousandths.
Tolerance == 10
\* Positions of the joint j1 in the joint state messages, in ten-thousandths.
Positions == {0, 10005, 10010, 10011, 11000, -10005, -10011}

EstThreads == {"spin", "req"}
Threads == EstThreads \cup {"tag", "base", "js"}
Free == "free"

VARIABLES
  current_stamp,                   \* self.current_stamp
  last_stamp,                      \* self.last_stamp
  current_visual_tag_constraints,  \* self.current_visual_tag_constraints
  last_visual_tag_constraints,     \* self.last_visual_tag_constraints
  last_stamp_is_ready,             \* self.last_stamp_is_ready
  run_continuous_estimation,       \* self.run_continuous_estimation
  visual_tags_enabled,             \* self.visual_tags_enabled
  manip,                           \* hasattr(self, "manip")
  last_state_id,                   \* self.last_state_id, NoAttr when unset
  locked_joints,                   \* self.locked_joints
  mutex,                           \* self.mutex: Free or the holding thread
  pc,                              \* position of every thread
  tagMsg,                          \* ts_msg of the running get_visual_tag
  baseMsg,                         \* ts_msg of the running get_base_pose_estimation
  hppConfig,                       \* current configuration held by the solver
  cyc,                             \* locals and outputs of the running cycle
  escaped,                         \* estimation and get_joint_state threads whose
                                   \* last run raised to the caller
  consumed,                        \* cycles that handed the sealed frame to the solver
  tagRun,                          \* names of the tag detections of the open frame
  tagRunOk,                        \* the open frame was fed by tag detections only,
                                   \* all of them at its timestamp
  sealedByTags,                    \* the sealed frame was such a frame, not empty
  sealed,                          \* timestamp and names of the frame closed by the
                                   \* most recent rollover
  rollovers,                       \* rollovers since the last cycle ended, up to 2
  jsMsg,                           \* js_msg of the running get_joint_state
  jsRun                            \* the last get_joint_state that ended: the joints
                                   \* and the position of its message, how its try
                                   \* block ended, the value it locked the joint j1
                                   \* at, and what it logged

frameVars == <<current_stamp, last_stamp, current_visual_tag_constraints,
               last_visual_tag_constraints, last_stamp_is_ready>>
ghostVars == <<consumed, tagRun, tagRunOk, sealedByTags, sealed, rollovers>>
confVars == <<visual_tags_enabled, manip>>
vars == <<current_stamp, last_stamp, current_visual_tag_constraints,
          last_visual_tag_constraints, last_stamp_is_ready,
          run_continuous_estimation, visual_tags_enabled, manip,
          last_state_id, locked_joints, mutex, pc, tagMsg, baseMsg,
          hppConfig, cyc, escaped, consumed, tagRun, tagRunOk, sealedByTags,
          sealed, rollovers, jsMsg, jsRun>>

Range(s) == {s[i] : i \in 1..Len(s)}

\* No cycle is running.
NoCyc == [q_current |-> "none", node |-> "none", state_ids |-> <<>>,
          handed |-> FALSE, frame |-> <<>>,
          proj |-> "none", opt |-> "none", errNorm |-> 0, optlog |-> {},
          q_estimated |-> "none",
          collision |-> FALSE, published |-> <<>>, tf |-> FALSE, tf_stamp |-> 0,
          warned |-> FALSE, raised |-> FALSE]
\* No joint state message has been processed: no value of the joint j1.
NoValue == <<>>
NoJs == [name |-> <<>>, position |-> 0, outcome |-> "none", qjoint |-> NoValue,
         log |-> {}]
NoJsMsg == [name |-> <<>>, position |-> 0]
NoMsg == [stamp |-> 0, child |-> "none", rotz |-> 0]

\* ------------------------------------------------------------ construction
\* Lines 72-89: the attributes set by __init__, whatever its arguments.
Constructed ==
  /\ last_stamp = 0
  /\ last_visual_tag_constraints = <<>>
  /\ current_visual_tag_constraints = <<>>
  /\ last_stamp_is_ready = FALSE
  /\ last_state_id = NoAttr
  /\ locked_joints = <<>>
  /\ mutex = Free
  /\ pc = [th \in Threads |-> "idle"]
  /\ tagMsg = NoMsg
  /\ baseMsg = NoMsg
  /\ cyc = NoCyc
  /\ escaped = {}
  /\ consumed = 0
  /\ tagRun = <<>>
  /\ tagRunOk = TRUE
  /\ sealedByTags = FALSE
  /\ sealed = [stamp |-> 0, names |-> <<>>]
  /\ rollovers = 0
  /\ jsMsg = NoJsMsg
  /\ jsRun = NoJs

\* The two calls of rospy.Time.now() return the same time.
Init ==
  /\ Constructed
  /\ current_stamp = 0
  /\ run_continuous_estimation \in BOOLEAN
  /\ visual_tags_enabled \in BOOLEAN
  /\ manip \in BOOLEAN
  /\ hppConfig = "qa"

\* The node without the manipulation graph and without continuous
\* estimation (the default of __init__); the second call of rospy.Time.now()
\* may return a later time than the first.
InitFrames ==
  /\ Constructed
  /\ current_stamp \in {0, 1}
  /\ run_continuous_estimation = FALSE
  /\ visual_tags_enabled \in BOOLEAN
  /\ manip = FALSE
  /\ hppConfig = "qa"

\* The node with the visual tags, with or without the manipulation graph.
InitCycle ==
  /\ Constructed
  /\ current_stamp = 0
  /\ run_continuous_estimation = FALSE
  /\ visual_tags_enabled = TRUE
  /\ manip \in BOOLEAN
  /\ hppConfig \in Configs

\* ------------------------------------------------------------------- mutex
\* Acquire that does not wait for the lock to be free.
Acquire_NoBlock(th) == mutex' = th

\* self.mutex.acquire(): blocks until the lock is free.
Acquire(th) ==
  /\ mutex = Free
  /\ mutex' = th

\* self.mutex.release()
Release(th) == mutex' = Free

\* ------------------------------------------------------ constraint factory
\* A joint name is <<namespace, local name>>; a name without "/" has the
\* empty namespace and is prefixed by the robot name.
Qualify(j) == IF j[1] = "" THEN <<robot_name, j[2]>> ELSE j

One == 1000000
\* s = tagsize * oriW * distW with tagsize = 0.063 * 4 and distW = 1, in
\* millionths; oriW is the negated rotz.
OrientationWeight(rotz) == 252 * (0 - rotz)

\* Orientation weights given to _get_transformation_constraint, in millionths.
Weights == {0, 1, 252000, 999999, One}

\* TransformationConstraintNames that returns a position and a scaled
\* orientation constraint for every weight.
TransformationConstraintNames_TwoNames(joint1, joint2, prefix, orientationWeight) ==
  LET j1 == Qualify(joint1)
      j2 == Qualify(joint2)
  IN << <<"P_", prefix, j1, j2>>, <<"sO_", prefix, j1, j2>> >>

\* The names returned by _get_transformation_constraint.
TransformationConstraintNames(joint1, joint2, prefix, orientationWeight) ==
  LET j1 == Qualify(joint1)
      j2 == Qualify(joint2)
  IN IF orientationWeight = One
       THEN << <<"T_", prefix, j1, j2>> >>
       ELSE << <<"P_", prefix, j1, j2>>, <<"sO_", prefix, j1, j2>> >>

TagNames(msg) ==
  TransformationConstraintNames(<<"", "camera">>, <<"", msg.child>>, "",
                                OrientationWeight(msg.rotz))
BaseNames ==
  TransformationConstraintNames(<<"", "universe">>, <<robot_name, "root_joint">>,
                                "base/", One)

\* ------------------------------------------------------------ bound guards
\* Names that the callbacks already past their timestamp test may still add.
Pending ==
  (IF pc["tag"] # "idle" THEN 2 ELSE 0) + (IF pc["base"] # "idle" THEN 1 ELSE 0)
\* The open frame keeps room for n more names below the bound max.
Room(n, max) == Len(current_visual_tag_constraints) + Pending + n <= max
\* A tag detection at time t is delivered: it opens a frame or finds room.
TagRoom(t, max) == t > current_stamp \/ Room(2, max)
\* A base pose is delivered: it seals the frame or finds room.
BaseRoom(max) == ~visual_tags_enabled \/ Room(1, max)

\* One more rollover since the last cycle ended.
Rolled == IF rollovers < 2 THEN rollovers + 1 ELSE rollovers

\* --------------------------------------------------------- get_visual_tag
\* Lines 278-279: the timestamp test, made before the mutex is taken.  The
\* weight s (lines 281-294) is a function of the message alone.
TagCheck(t, child, rotz) ==
  /\ pc["tag"] = "idle"
  /\ IF t < current_stamp
       THEN UNCHANGED <<pc, tagMsg>>
       ELSE /\ pc' = [pc EXCEPT !["tag"] = "tag_wait"]
            /\ tagMsg' = [stamp |-> t, child |-> child, rotz |-> rotz]
  /\ UNCHANGED <<frameVars, ghostVars, confVars, run_continuous_estimation,
                 last_state_id, locked_joints, mutex, baseMsg, hppConfig, cyc,
                 escaped, jsMsg, jsRun>>

\* Line 296: self.mutex.acquire(); the thread then runs
\* _get_transformation_constraint (line 298).
TagAcquire ==
  /\ pc["tag"] = "tag_wait"
  /\ Acquire("tag")
  /\ pc' = [pc EXCEPT !["tag"] = "tag_solver"]
  /\ UNCHANGED <<frameVars, ghostVars, confVars, run_continuous_estimation,
                 last_state_id, locked_joints, tagMsg, baseMsg, hppConfig, cyc,
                 escaped, jsMsg, jsRun>>

\* Lines 302-310: the rollover and the extension of the open frame.
TagFrameUpdate(stamp, names) ==
  IF current_stamp < stamp
    THEN /\ last_stamp' = current_stamp
         /\ last_visual_tag_constraints' = current_visual_tag_constraints
         /\ current_stamp' = stamp
         /\ current_visual_tag_constraints' = names
         /\ last_stamp_is_ready' = TRUE
    ELSE /\ current_visual_tag_constraints' =
              current_visual_tag_constraints \o names
         /\ UNCHANGED <<last_stamp, last_visual_tag_constraints, current_stamp,
                        last_stamp_is_ready>>

\* Lines 298-312: the solver call returns (out = "ok") or raises; the finally
\* clause releases the mutex, and an exception leaves the callback.
TagBody(out) ==
  /\ pc["tag"] = "tag_solver"
  /\ IF out = "ok"
       THEN /\ TagFrameUpdate(tagMsg.stamp, TagNames(tagMsg))
            /\ IF current_stamp < tagMsg.stamp
                 THEN /\ consumed' = 0
                      /\ sealedByTags' = (tagRunOk /\ Len(tagRun) > 0)
                      /\ tagRun' = TagNames(tagMsg)
                      /\ tagRunOk' = TRUE
                      /\ sealed' = [stamp |-> current_stamp,
                                    names |-> current_visual_tag_constraints]
                      /\ rollovers' = Rolled
                 ELSE /\ tagRun' = tagRun \o TagNames(tagMsg)
                      /\ tagRunOk' = (tagRunOk /\ tagMsg.stamp = current_stamp)
                      /\ UNCHANGED <<consumed, sealedByTags, sealed, rollovers>>
       ELSE UNCHANGED <<frameVars, ghostVars>>
  /\ Release("tag")
  /\ pc' = [pc EXCEPT !["tag"] = "idle"]
  /\ tagMsg' = NoMsg
  /\ UNCHANGED <<confVars, run_continuous_estimation, last_state_id,
                 locked_joints, baseMsg, hppConfig, cyc, escaped, jsMsg, jsRun>>

\* ----------------------------------------------- get_base_pose_estimation
\* Lines 315-316: the timestamp test, made before the mutex is taken.
BaseCheck(t) ==
  /\ pc["base"] = "idle"
  /\ IF t < current_stamp
       THEN UNCHANGED <<pc, baseMsg>>
       ELSE /\ pc' = [pc EXCEPT !["base"] = "base_wait"]
            /\ baseMsg' = [NoMsg EXCEPT !.stamp = t]
  /\ UNCHANGED <<frameVars, ghostVars, confVars, run_continuous_estimation,
                 last_state_id, locked_joints, mutex, tagMsg, hppConfig, cyc,
                 escaped, jsMsg, jsRun>>

\* Line 318: self.mutex.acquire(); the thread then calls the solver
\* (lines 320-325).
BaseAcquire ==
  /\ pc["base"] = "base_wait"
  /\ Acquire("base")
  /\ pc' = [pc EXCEPT !["base"] = "base_solver"]
  /\ UNCHANGED <<frameVars, ghostVars, confVars, run_continuous_estimation,
                 last_state_id, locked_joints, tagMsg, baseMsg, hppConfig, cyc,
                 escaped, jsMsg, jsRun>>

\* BaseExtended that adds the name whether or not the open frame holds it.
BaseExtended_Always(names) == current_visual_tag_constraints \o names

\* Lines 328-329: the name is added unless the open frame holds it already.
BaseExtended(names) ==
  IF names[1] \in Range(current_visual_tag_constraints)
    THEN current_visual_tag_constraints
    ELSE current_visual_tag_constraints \o names

\* BaseFrameUpdate without the rollover of lines 331-338.
BaseFrameUpdate_NoSeal(stamp, names) ==
  /\ current_visual_tag_constraints' = BaseExtended(names)
  /\ UNCHANGED <<last_stamp, last_visual_tag_constraints, current_stamp,
                 last_stamp_is_ready>>

\* Lines 328-338: the extension and, with the visual tags disabled, the
\* rollover.
BaseFrameUpdate(stamp, names) ==
  IF ~visual_tags_enabled
    THEN /\ last_stamp' = current_stamp
         /\ last_visual_tag_constraints' = BaseExtended(names)
         /\ current_stamp' = stamp
         /\ current_visual_tag_constraints' = <<>>
         /\ last_stamp_is_ready' = TRUE
    ELSE /\ current_visual_tag_constraints' = BaseExtended(names)
         /\ UNCHANGED <<last_stamp, last_visual_tag_constraints, current_stamp,
                        last_stamp_is_ready>>

\* Lines 319-340: the solver calls return or raise; the finally clause
\* releases the mutex, and an exception leaves the callback.
BaseBody(out) ==
  /\ pc["base"] = "base_solver"
  /\ IF out = "ok"
       THEN /\ BaseFrameUpdate(baseMsg.stamp, BaseNames)
            /\ IF ~visual_tags_enabled
                 THEN /\ consumed' = 0
                      /\ sealedByTags' = FALSE
                      /\ tagRun' = <<>>
                      /\ tagRunOk' = TRUE
                      /\ sealed' = [stamp |-> current_stamp,
                                    names |-> BaseExtended(BaseNames)]
                      /\ rollovers' = Rolled
                 ELSE /\ tagRunOk' = FALSE
                      /\ UNCHANGED <<consumed, tagRun, sealedByTags, sealed,
                                     rollovers>>
       ELSE UNCHANGED <<frameVars, ghostVars>>
  /\ Release("base")
  /\ pc' = [pc EXCEPT !["base"] = "idle"]
  /\ baseMsg' = NoMsg
  /\ UNCHANGED <<confVars, run_continuous_estimation, last_state_id,
                 locked_joints, tagMsg, hppConfig, cyc, escaped, jsMsg, jsRun>>
\* --------------------------------------------------- continuous_estimation
\* Lines 97-100: the service handler stores the requested flag.
ContinuousEstimation(data) ==
  /\ run_continuous_estimation' = data
  /\ UNCHANGED <<frameVars, ghostVars, confVars, last_state_id, locked_joints,
                 mutex, pc, tagMsg, baseMsg, hppConfig, cyc, escaped, jsMsg, jsRun>>

\* -------------------------------------------------------------------- spin
\* Line 105, left operand: the loop reads run_continuous_estimation.
SpinReadRun ==
  /\ pc["spin"] = "idle"
  /\ pc' = [pc EXCEPT !["spin"] =
              IF run_continuous_estimation THEN "spin_ready" ELSE "idle"]
  /\ UNCHANGED <<frameVars, ghostVars, confVars, run_continuous_estimation,
                 last_state_id, locked_joints, mutex, tagMsg, baseMsg,
                 hppConfig, cyc, escaped, jsMsg, jsRun>>

\* SpinReadReady that goes to the next tick whatever the ready flag is.
SpinReadReady_Never ==
  /\ pc["spin"] = "spin_ready"
  /\ pc' = [pc EXCEPT !["spin"] = "idle"]
  /\ UNCHANGED <<frameVars, ghostVars, confVars, run_continuous_estimation,
                 last_state_id, locked_joints, mutex, tagMsg, baseMsg,
                 hppConfig, cyc, escaped, jsMsg, jsRun>>

\* Line 105, right operand, and line 107: the loop reads last_stamp_is_ready
\* and calls estimation().
SpinReadReady ==
  /\ pc["spin"] = "spin_ready"
  /\ pc' = [pc EXCEPT !["spin"] =
              IF last_stamp_is_ready THEN "est_wait" ELSE "idle"]
  /\ UNCHANGED <<frameVars, ghostVars, confVars, run_continuous_estimation,
                 last_state_id, locked_joints, mutex, tagMsg, baseMsg,
                 hppConfig, cyc, escaped, jsMsg, jsRun>>

\* Lines 42-44: a message on estimation/request calls estimation(msg).
Request ==
  /\ pc["req"] = "idle"
  /\ pc' = [pc EXCEPT !["req"] = "est_wait"]
  /\ UNCHANGED <<frameVars, ghostVars, confVars, run_continuous_estimation,
                 last_state_id, locked_joints, mutex, tagMsg, baseMsg,
                 hppConfig, cyc, escaped, jsMsg, jsRun>>

\* -------------------------------------------------------------- estimation
estUnchanged == <<current_stamp, last_stamp, current_visual_tag_constraints,
                  last_visual_tag_constraints, last_stamp_is_ready,
                  run_continuous_estimation, visual_tags_enabled, manip,
                  locked_joints, tagMsg, baseMsg, escaped, tagRun, tagRunOk,
                  sealedByTags, sealed, rollovers, jsMsg, jsRun>>

\* Line 115: self.mutex.acquire(); the thread then calls getCurrentConfig.
EstAcquire(th) ==
  /\ pc[th] = "est_wait"
  /\ Acquire(th)
  /\ pc' = [pc EXCEPT ![th] = "est_read"]
  /\ cyc' = NoCyc
  /\ UNCHANGED <<estUnchanged, last_state_id, hppConfig, consumed>>

\* Lines 118-119: q_current = hpp.robot.getCurrentConfig().
EstRead(th, out) ==
  /\ pc[th] = "est_read"
  /\ IF out = "ok"
       THEN /\ cyc' = [cyc EXCEPT !.q_current = hppConfig]
            /\ pc' = [pc EXCEPT ![th] = "est_init"]
       ELSE /\ cyc' = [cyc EXCEPT !.raised = TRUE]
            /\ pc' = [pc EXCEPT ![th] = "est_finally"]
  /\ UNCHANGED <<estUnchanged, last_state_id, hppConfig, consumed, mutex>>

\* ResolveState that falls back to the default state although a state is
\* cached.
ResolveState_DefaultFirst(node) ==
  IF node \in States THEN node ELSE default_state_id

\* Lines 190-199: the state of the graph, the cached state or the default
\* state.  node is the answer of manip.graph.getNode: a state, or
\* "UserException".
ResolveState(node) ==
  IF node \in States THEN node
  ELSE IF last_state_id # NoAttr THEN last_state_id
  ELSE default_state_id

\* FrameConstraints that hands the names of the open frame after those of
\* the sealed frame.
FrameConstraints_WithOpen ==
  last_visual_tag_constraints \o current_visual_tag_constraints

\* Lines 215-219: the sealed frame's names are added when there are any.
FrameConstraints ==
  IF Len(last_visual_tag_constraints) > 0
    THEN last_visual_tag_constraints
    ELSE <<>>

\* Lines 180-219: _initialize_constraints.  out tells which call raises, if
\* any: resetConstraints ("raise_reset"), getNode with another exception than
\* UserException ("raise_node"), a call that sets the baseline constraints
\* ("raise_base"), setNumericalConstraintsLastPriorityOptional
\* ("raise_frame").
EstInit(th, out, node) ==
  /\ pc[th] = "est_init"
  /\ out = "raise_node" => manip
  /\ out = "raise_frame" => Len(FrameConstraints) > 0
  /\ LET resolved == manip /\ out \notin {"raise_reset", "raise_node"}
         added == IF out \in {"ok", "raise_frame"} THEN FrameConstraints ELSE <<>>
     IN /\ last_state_id' = IF resolved THEN ResolveState(node) ELSE last_state_id
        /\ cyc' = [cyc EXCEPT
                     !.node = IF ~manip \/ out = "raise_reset" THEN "none"
                              ELSE IF out = "raise_node" THEN "raise"
                              ELSE node,
                     !.state_ids = IF resolved THEN <<ResolveState(node)>> ELSE @,
                     !.handed = Len(added) > 0,
                     !.frame = added,
                     !.raised = (out # "ok")]
        /\ consumed' = IF Len(added) > 0 /\ consumed < 2
                         THEN consumed + 1 ELSE consumed
  /\ pc' = [pc EXCEPT ![th] = IF out = "ok" THEN "est_apply" ELSE "est_finally"]
  /\ UNCHANGED <<estUnchanged, hppConfig, mutex>>

\* RestoredConfig that leaves the solver with the configuration of the
\* projection.
RestoredConfig_Kept(q) == q

\* Line 146: hpp.robot.setCurrentConfig(q_current).
RestoredConfig(q) == cyc.q_current

\* Lines 124-126 and 145-148: applyConstraints; on a failed projection the
\* configuration read at line 119 is written back and a warning is logged.
\* q is the configuration the solver is left with by applyConstraints.
EstApply(th, out, q) ==
  /\ pc[th] = "est_apply"
  /\ CASE out = "ok" ->
            /\ cyc' = [cyc EXCEPT !.proj = "ok"]
            /\ hppConfig' = q
            /\ pc' = [pc EXCEPT ![th] = "est_opt"]
       [] out = "fail" ->
            /\ cyc' = [cyc EXCEPT !.proj = "fail", !.warned = TRUE,
                                  !.q_estimated = cyc.q_current]
            /\ hppConfig' = RestoredConfig(q)
            /\ pc' = [pc EXCEPT ![th] = "est_finally"]
       [] out = "fail_raise" ->
            /\ cyc' = [cyc EXCEPT !.proj = "fail", !.raised = TRUE]
            /\ hppConfig' = q
            /\ pc' = [pc EXCEPT ![th] = "est_finally"]
       [] out = "raise" ->
            /\ cyc' = [cyc EXCEPT !.raised = TRUE]
            /\ hppConfig' = q
            /\ pc' = [pc EXCEPT ![th] = "est_finally"]
  /\ UNCHANGED <<estUnchanged, last_state_id, consumed, mutex>>
\* OptimizeLog that warns from the threshold on.
OptimizeLog_FromThreshold(optOk, errNorm) ==
  IF optOk THEN {}
  ELSE IF errNorm >= ErrThreshold THEN {"logwarn"}
  ELSE {"loginfo"}

\* Lines 128-136: the signal logged after optimize.
OptimizeLog(optOk, errNorm) ==
  IF optOk THEN {}
  ELSE IF errNorm > ErrThreshold THEN {"logwarn"}
  ELSE {"loginfo"}

\* Lines 127-136: optimize returns (optOk, q_estimated, error) or raises.
EstOptimize(th, out, optOk, errNorm, q) ==
  /\ pc[th] = "est_opt"
  /\ IF out = "ok"
       THEN /\ cyc' = [cyc EXCEPT !.opt = IF optOk THEN "ok" ELSE "failed",
                                  !.errNorm = IF optOk THEN 0 ELSE errNorm,
                                  !.optlog = OptimizeLog(optOk, errNorm),
                                  !.q_estimated = q]
            /\ pc' = [pc EXCEPT ![th] = "est_valid"]
       ELSE /\ cyc' = [cyc EXCEPT !.raised = TRUE]
            /\ pc' = [pc EXCEPT ![th] = "est_finally"]
  /\ UNCHANGED <<estUnchanged, last_state_id, hppConfig, consumed, mutex>>

\* PublishSemantic that publishes valid configurations only.
PublishSemantic_IfValid(valid) ==
  IF valid THEN Append(cyc.published, cyc.q_estimated) ELSE cyc.published

\* Line 142: the estimated configuration is published on estimation/semantic.
PublishSemantic(valid) == Append(cyc.published, cyc.q_estimated)

\* Lines 138-142: isConfigValid returns or raises; a collision is logged and
\* the configuration is published.
EstValidate(th, out, valid) ==
  /\ pc[th] = "est_valid"
  /\ IF out = "ok"
       THEN /\ cyc' = [cyc EXCEPT !.collision = ~valid,
                                  !.published = PublishSemantic(valid)]
            /\ pc' = [pc EXCEPT ![th] = "est_tf"]
       ELSE /\ cyc' = [cyc EXCEPT !.raised = TRUE]
            /\ pc' = [pc EXCEPT ![th] = "est_finally"]
  /\ UNCHANGED <<estUnchanged, last_state_id, hppConfig, consumed, mutex>>

\* Lines 144 and 158-178: publish_state reads the link positions from the
\* solver and sends the transforms, or a solver call raises.
EstPublishState(th, out) ==
  /\ pc[th] = "est_tf"
  /\ cyc' = IF out = "ok" THEN [cyc EXCEPT !.tf = TRUE, !.tf_stamp = last_stamp]
                          ELSE [cyc EXCEPT !.raised = TRUE]
  /\ pc' = [pc EXCEPT ![th] = "est_finally"]
  /\ UNCHANGED <<estUnchanged, last_state_id, hppConfig, consumed, mutex>>

\* EstFinally that clears the ready flag only when no exception was raised.
EstFinally_KeepReady(th) ==
  /\ pc[th] = "est_finally"
  /\ last_stamp_is_ready' = (cyc.raised /\ last_stamp_is_ready)
  /\ Release(th)
  /\ escaped' = escaped \ {th}
  /\ pc' = [pc EXCEPT ![th] = "idle"]
  /\ cyc' = NoCyc
  /\ rollovers' = 0
  /\ UNCHANGED <<current_stamp, last_stamp, current_visual_tag_constraints,
                 last_visual_tag_constraints, run_continuous_estimation,
                 confVars, last_state_id, locked_joints, tagMsg, baseMsg,
                 hppConfig, consumed, tagRun, tagRunOk, sealedByTags, sealed,
                 jsMsg, jsRun>>

\* Lines 149-154: the exception, if any, is logged and dropped; the ready
\* flag is cleared and the mutex is released.
EstFinally(th) ==
  /\ pc[th] = "est_finally"
  /\ last_stamp_is_ready' = FALSE
  /\ Release(th)
  /\ escaped' = escaped \ {th}
  /\ pc' = [pc EXCEPT ![th] = "idle"]
  /\ cyc' = NoCyc
  /\ rollovers' = 0
  /\ UNCHANGED <<current_stamp, last_stamp, current_visual_tag_constraints,
                 last_visual_tag_constraints, run_continuous_estimation,
                 confVars, last_state_id, locked_joints, tagMsg, baseMsg,
                 hppConfig, consumed, tagRun, tagRunOk, sealedByTags, sealed,
                 jsMsg, jsRun>>

\* --------------------------------------------------------- get_joint_state
\* Line 223: self.mutex.acquire() of the callback of a message with the
\* joints names, the joint j1 at the position q; the thread then calls the
\* solver for every joint of the message.
JsAcquire(names, q) ==
  /\ pc["js"] = "idle"
  /\ Acquire("js")
  /\ pc' = [pc EXCEPT !["js"] = "js_solver"]
  /\ jsMsg' = [name |-> names, position |-> q]
  /\ UNCHANGED <<frameVars, ghostVars, confVars, run_continuous_estimation,
                 last_state_id, locked_joints, tagMsg, baseMsg, hppConfig, cyc,
                 escaped, jsRun>>

\* Line 244: the names of the locked joints of a message.
LockNames(names) ==
  [i \in 1..Len(names) |-> <<"lock_", robot_name, names[i]>>]

\* Line 231: the joints whose type starts with JointModelRUB.
IsRUB(jn) == jn = "j2"
\* Lines 232 and 235: the configuration size the assertions expect.
ExpectedSize(jn) == IF IsRUB(jn) THEN 2 ELSE 1
\* Line 237: hpp.robot.getJointBounds(name) of the joint j1.
JointBounds == <<-10000, 10000>>

Min(a, b) == IF a < b THEN a ELSE b
Max(a, b) == IF a > b THEN a ELSE b

\* JointValue that locks the joint at the position of the message.
JointValue_Unclamped(q) == <<q>>

\* Line 241: the value the joint is locked at.
JointValue(q) == << Min(JointBounds[2], Max(JointBounds[1], q)) >>

\* Line 238: the position is out of the bounds by more than the tolerance.
OutOfBounds(q) ==
  q - JointBounds[1] < 0 - Tolerance \/ q - JointBounds[2] > Tolerance

\* The first joint of the message whose size is not the expected one;
\* Len(names) + 1 when there is none.
FirstMismatch(names, sizes) ==
  LET bad == {i \in 1..Len(names) : sizes[names[i]] # ExpectedSize(names[i])}
  IN IF bad = {} THEN Len(names) + 1
     ELSE CHOOSE i \in bad : \A j \in bad : i <= j

\* How the try block of lines 224-244 ends.  sizes is the answer of
\* getJointConfigSize for every joint; at is the joint at which the solver
\* raises UserException, Len(names) + 1 when it does not.
JsOutcome(names, sizes, at) ==
  IF at <= Len(names) /\ at <= FirstMismatch(names, sizes) THEN "UserException"
  ELSE IF FirstMismatch(names, sizes) <= Len(names) THEN "AssertionError"
  ELSE "ok"

\* JsRaised that takes every exception for a caught one.
JsRaised_CatchAll(outcome) == FALSE

\* Lines 245-248: UserException is caught and logged; any other exception
\* leaves the callback after the finally clause.
JsRaised(outcome) == outcome = "AssertionError"

\* Baseline that follows the joints of the latest message.
Baseline_Latest(names, outcome) ==
  IF outcome = "ok" THEN LockNames(names) ELSE locked_joints

\* Lines 243-244: the list of the locked joints is set when it is empty and
\* the loop over the joints has ended.
Baseline(names, outcome) ==
  IF outcome = "ok" /\ Len(locked_joints) = 0
    THEN LockNames(names) ELSE locked_joints

\* Lines 224-248: the loop over the joints of the message, the baseline,
\* the except and finally clauses.
JsBody(sizes, at) ==
  LET names == jsMsg.name
      q == jsMsg.position
      outcome == JsOutcome(names, sizes, at)
      reached == Min(at, FirstMismatch(names, sizes))
      done == IF outcome = "ok" THEN Len(names) ELSE reached - 1
      locked == \E i \in 1..done : names[i] = "j1"
  IN /\ pc["js"] = "js_solver"
     /\ at <= Len(names) + 1
     /\ locked_joints' = Baseline(names, outcome)
     /\ jsRun' = [name |-> names,
                  position |-> q,
                  outcome |-> outcome,
                  qjoint |-> IF locked THEN JointValue(q) ELSE NoValue,
                  log |-> (IF locked /\ OutOfBounds(q) THEN {"logwarn"} ELSE {})
                          \cup (IF outcome = "UserException" THEN {"logerr"}
                                                            ELSE {})]
     /\ escaped' = IF JsRaised(outcome) THEN escaped \cup {"js"}
                                        ELSE escaped \ {"js"}
     /\ Release("js")
     /\ pc' = [pc EXCEPT !["js"] = "idle"]
     /\ jsMsg' = NoJsMsg
     /\ UNCHANGED <<frameVars, ghostVars, confVars, run_continuous_estimation,
                    last_state_id, tagMsg, baseMsg, hppConfig, cyc>>

\* ----------------------------------------------------------- specification
\* Every thread and every way a solver call of a cycle, of a tag callback or
\* of a base pose callback ends (it returns or it raises); the sensors deliver
\* one tag and the timestamps 0..MaxCycleStamp, the solver returns one
\* configuration; a joint state callback returns or fails on the size of its
\* joint.
Next ==
  \/ \E t \in CycleStamps :
        TagRoom(t, MaxCycleLen) /\ TagCheck(t, "tagA", -1000)
  \/ TagAcquire
  \/ \E out \in {"ok", "raise"} : TagBody(out)
  \/ \E t \in CycleStamps : BaseRoom(MaxCycleLen) /\ BaseCheck(t)
  \/ BaseAcquire
  \/ \E out \in {"ok", "raise"} : BaseBody(out)
  \/ \E data \in BOOLEAN : ContinuousEstimation(data)
  \/ SpinReadRun
  \/ SpinReadReady
  \/ Request
  \/ \E th \in EstThreads : EstAcquire(th)
  \/ \E th \in EstThreads, out \in {"ok", "raise"} : EstRead(th, out)
  \/ \E th \in EstThreads,
        out \in {"ok", "raise_reset", "raise_node", "raise_base", "raise_frame"} :
          EstInit(th, out, "UserException")
  \/ \E th \in EstThreads, out \in {"ok", "fail", "fail_raise", "raise"} :
          EstApply(th, out, "qa")
  \/ \E th \in EstThreads, out \in {"ok", "raise"} :
          EstOptimize(th, out, TRUE, 9, "qa")
  \/ \E th \in EstThreads, out \in {"ok", "raise"} : EstValidate(th, out, TRUE)
  \/ \E th \in EstThreads, out \in {"ok", "raise"} : EstPublishState(th, out)
  \/ \E th \in EstThreads : EstFinally(th)
  \/ JsAcquire(<<"j1">>, 0)
  \/ \E sizes \in {RightSizes, [RightSizes EXCEPT !["j1"] = 2]} :
          JsBody(sizes, 2)

Spec == Init /\ [][Next]_vars

\* The sensor callbacks and the estimation cycles run on request; the sensors
\* deliver every tag and the timestamps 0..MaxStamp, the solver answers every
\* call of a cycle except that getCurrentConfig may raise and the projection
\* may fail.
NextFrames ==
  \/ \E t \in Stamps, child \in Tags :
        TagRoom(t, MaxLen) /\ TagCheck(t, child, -1000)
  \/ TagAcquire
  \/ \E out \in {"ok", "raise"} : TagBody(out)
  \/ \E t \in Stamps : BaseRoom(MaxLen) /\ BaseCheck(t)
  \/ BaseAcquire
  \/ \E out \in {"ok", "raise"} : BaseBody(out)
  \/ Request
  \/ EstAcquire("req")
  \/ \E out \in {"ok", "raise"} : EstRead("req", out)
  \/ EstInit("req", "ok", "UserException")
  \/ \E out \in {"ok", "fail"} : EstApply("req", out, "qa")
  \/ EstOptimize("req", "ok", TRUE, 9, "qa")
  \/ EstValidate("req", "ok", TRUE)
  \/ EstPublishState("req", "ok")
  \/ EstFinally("req")

SpecFrames == InitFrames /\ [][NextFrames]_vars

\* The estimation cycles requested one after another, with every answer of
\* the solver; tag detections fill the frames between the cycles.
NextCycle ==
  \/ \E t \in CycleStamps, rotz \in RotZs :
        TagRoom(t, MaxCycleLen) /\ TagCheck(t, "tagA", rotz)
  \/ TagAcquire
  \/ TagBody("ok")
  \/ Request
  \/ EstAcquire("req")
  \/ \E out \in {"ok", "raise"} : EstRead("req", out)
  \/ \E out \in {"ok", "raise_reset", "raise_node", "raise_base", "raise_frame"},
        node \in States \cup {"UserException"} : EstInit("req", out, node)
  \/ \E out \in {"ok", "fail", "fail_raise", "raise"}, q \in Configs :
          EstApply("req", out, q)
  \/ \E out \in {"ok", "raise"}, optOk \in BOOLEAN, errNorm \in ErrNorms,
        q \in Configs : EstOptimize("req", out, optOk, errNorm, q)
  \/ \E out \in {"ok", "raise"}, valid \in BOOLEAN : EstValidate("req", out, valid)
  \/ \E out \in {"ok", "raise"} : EstPublishState("req", out)
  \/ EstFinally("req")

SpecCycle == InitCycle /\ [][NextCycle]_vars

\* The joint state callbacks with every message and every answer of the
\* solver, among tag detections and requested estimation cycles.
NextJoints ==
  \/ \E names \in JsNames, q \in Positions : JsAcquire(names, q)
  \/ \E sizes \in Sizes, at \in 1..3 : JsBody(sizes, at)
  \/ \E t \in CycleStamps :
        TagRoom(t, MaxCycleLen) /\ TagCheck(t, "tagA", -1000)
  \/ TagAcquire
  \/ TagBody("ok")
  \/ Request
  \/ EstAcquire("req")
  \/ EstRead("req", "ok")
  \/ EstInit("req", "ok", "UserException")
  \/ \E out \in {"ok", "fail"} : EstApply("req", out, "qa")
  \/ EstOptimize("req", "ok", TRUE, 9, "qa")
  \/ EstValidate("req", "ok", TRUE)
  \/ EstPublishState("req", "ok")
  \/ EstFinally("req")

SpecJoints == InitCycle /\ [][NextJoints]_vars

\* The node with continuous estimation, which no call of the service
\* disables.
InitLive ==
  /\ Constructed
  /\ current_stamp = 0
  /\ run_continuous_estimation = TRUE
  /\ visual_tags_enabled \in BOOLEAN
  /\ manip = FALSE
  /\ hppConfig = "qa"

\* A step of the cycle of the thread th between its acquire and its release:
\* a solver call returns or raises, the finally clause runs.
CycleStep(th) ==
  \/ \E out \in {"ok", "raise"} : EstRead(th, out)
  \/ EstInit(th, "ok", "UserException")
  \/ \E out \in {"ok", "fail"} : EstApply(th, out, "qa")
  \/ EstOptimize(th, "ok", TRUE, 9, "qa")
  \/ EstValidate(th, "ok", TRUE)
  \/ EstPublishState(th, "ok")
  \/ EstFinally(th)

\* The periodic loop with continuous estimation enabled, among the sensor
\* callbacks and the requested cycles.
NextLive ==
  \/ \E t \in LiveStamps :
        TagRoom(t, MaxLiveLen) /\ TagCheck(t, "tagA", -1000)
  \/ TagAcquire
  \/ \E out \in {"ok", "raise"} : TagBody(out)
  \/ \E t \in LiveStamps : BaseRoom(MaxLiveLen) /\ BaseCheck(t)
  \/ BaseAcquire
  \/ \E out \in {"ok", "raise"} : BaseBody(out)
  \/ JsAcquire(<<"j1">>, 0)
  \/ JsBody(RightSizes, 2)
  \/ SpinReadRun
  \/ SpinReadReady
  \/ Request
  \/ \E th \in EstThreads : EstAcquire(th)
  \/ \E th \in EstThreads : CycleStep(th)

\* The scheduling: the periodic loop comes to its next tick (line 112), the
\* mutex is granted to the loop when it waits for it, and the thread that
\* holds the mutex goes on to its release, every solver call returning or
\* raising.
Fairness ==
  /\ WF_vars(SpinReadRun)
  /\ WF_vars(SpinReadReady)
  /\ SF_vars(EstAcquire("spin"))
  /\ \A th \in EstThreads : WF_vars(CycleStep(th))
  /\ WF_vars(\E out \in {"ok", "raise"} : TagBody(out))
  /\ WF_vars(\E out \in {"ok", "raise"} : BaseBody(out))
  /\ WF_vars(JsBody(RightSizes, 2))

SpecLive == InitLive /\ [][NextLive]_vars /\ Fairness

\* The open frame stays within the bound of the model.
TypeOK ==
  /\ Len(current_visual_tag_constraints) <= MaxLen + 1
  /\ mutex \in Threads \cup {Free}
  /\ consumed \in 0..2
\* ================================================================== claims
frame == <<current_stamp, last_stamp, current_visual_tag_constraints,
           last_visual_tag_constraints, last_stamp_is_ready>>

\* The running tag callback returns from its critical section having changed
\* the frames.
TagModifies ==
  pc["tag"] = "tag_solver" /\ pc'["tag"] = "idle" /\ frame' # frame
\* The running base pose callback returns from its critical section having
\* changed the frames.
BaseModifies ==
  pc["base"] = "base_solver" /\ pc'["base"] = "idle" /\ frame' # frame

\* C1: under every interleaving of the tag callbacks, the base pose callbacks
\* and the estimation cycles, the timestamp of the open frame never
\* decreases, and so neither does the timestamp of the sealed frame.
C1_StampsNeverDecrease ==
  [][current_stamp' >= current_stamp /\ last_stamp' >= last_stamp]_vars

\* C2: a sealed frame's constraint list is handed to the solver by at most
\* one estimation cycle: a second cycle with no rollover in between adds no
\* frame constraint.
C2_ConsumedAtMostOnce == consumed <= 1

\* C4: a tag or base pose callback that appends names to the open frame or
\* rolls the frames over carries a timestamp that is not less than the open
\* frame's timestamp at that moment; an older message changes nothing.
C4_StaleDiscarded ==
  [][/\ TagModifies => tagMsg.stamp >= current_stamp
     /\ BaseModifies => baseMsg.stamp >= current_stamp]_vars

\* C5: n >= 1 tag detections at t0, delivered one after another, followed by
\* a detection at t1 > t0 leave last_stamp = t0, the sealed list equal to the
\* names of the t0 detections in arrival order, the ready flag set,
\* current_stamp = t1 and the open list equal to the names of the t1
\* detection; the sealed frame is handed to the solver by one cycle only.
C5_TagRollover ==
  [][/\ (TagModifies /\ tagMsg.stamp > current_stamp
           /\ tagRunOk /\ Len(tagRun) > 0)
        => /\ last_stamp' = current_stamp
           /\ last_visual_tag_constraints' = tagRun
           /\ last_stamp_is_ready'
           /\ current_stamp' = tagMsg.stamp
           /\ current_visual_tag_constraints' = TagNames(tagMsg)
     /\ sealedByTags' => consumed' <= 1]_vars

\* The frame part of C5 alone.
C5_RolloverOnly ==
  [][(TagModifies /\ tagMsg.stamp > current_stamp /\ tagRunOk /\ Len(tagRun) > 0)
        => /\ last_stamp' = current_stamp
           /\ last_visual_tag_constraints' = tagRun
           /\ last_stamp_is_ready'
           /\ current_stamp' = tagMsg.stamp
           /\ current_visual_tag_constraints' = TagNames(tagMsg)]_vars

\* C6 as stated: with the visual tags disabled, a base pose message at time
\* t leaves, when its callback returns, the ready flag set, last_stamp = t
\* and the base pose name in the sealed list.
C6_SealsAtMessageStamp ==
  [][(BaseModifies /\ ~visual_tags_enabled)
        => /\ last_stamp_is_ready'
           /\ last_stamp' = baseMsg.stamp
           /\ BaseNames[1] \in Range(last_visual_tag_constraints')]_vars

\* C6 as amended: with the visual tags disabled, a base pose message at time
\* t seals the open frame: when its callback returns the ready flag is set,
\* last_stamp is the timestamp the open frame had when the callback took the
\* mutex, current_stamp is t, the sealed list holds the base pose name and
\* the open list is empty.
C6_SealsOpenFrame ==
  [][(BaseModifies /\ ~visual_tags_enabled)
        => /\ last_stamp_is_ready'
           /\ last_stamp' = current_stamp
           /\ current_stamp' = baseMsg.stamp
           /\ BaseNames[1] \in Range(last_visual_tag_constraints')
           /\ current_visual_tag_constraints' = <<>>]_vars

\* A base pose message at a later time than the open frame's has sealed it.
C6_Witness ==
  /\ ~visual_tags_enabled
  /\ pc["base"] = "idle"
  /\ last_stamp_is_ready
  /\ last_stamp < current_stamp
  /\ BaseNames[1] \in Range(last_visual_tag_constraints)
  /\ current_visual_tag_constraints = <<>>
\* Positions of a thread inside a call into the solver.
SolverPositions ==
  {"tag_solver", "base_solver", "js_solver",
   "est_read", "est_init", "est_apply", "est_opt", "est_valid", "est_tf"}
\* Positions of an estimation cycle between acquire and release.
CyclePositions ==
  {"est_read", "est_init", "est_apply", "est_opt", "est_valid", "est_tf",
   "est_finally"}
InSolver(th) == pc[th] \in SolverPositions

\* C3: under every interleaving of the estimation cycles and the three
\* sensor callbacks, a thread inside a call into the solver holds the mutex,
\* and at most one thread is inside such a call.
C3_SolverMutualExclusion ==
  /\ \A th \in Threads : InSolver(th) => mutex = th
  /\ Cardinality({th \in Threads : InSolver(th)}) <= 1

\* A cycle is inside the solver while the other cycle and two sensor
\* callbacks wait for the mutex.
C3_Witness ==
  /\ pc["spin"] = "est_opt"
  /\ pc["req"] = "est_wait"
  /\ pc["tag"] = "tag_wait"
  /\ pc["base"] = "base_wait"

\* C7: with the manipulation graph, a cycle whose graph query answers
\* resolves one state: the answer when it is a state, else the cached state
\* when there is one, else the default state; that state is published and
\* cached.
C7_StateResolution ==
  [][\A th \in EstThreads :
       (manip /\ pc[th] = "est_init" /\ pc'[th] # "est_init"
          /\ cyc'.node \in States \cup {"UserException"})
       => /\ cyc'.state_ids =
               << IF cyc'.node \in States THEN cyc'.node
                  ELSE IF last_state_id # NoAttr THEN last_state_id
                  ELSE default_state_id >>
          /\ last_state_id' = cyc'.state_ids[1]]_vars

\* The query found no state and the cached state, which is not the default
\* one, was published.
C7_Witness ==
  /\ manip
  /\ cyc.node = "UserException"
  /\ cyc.state_ids = <<"s1">>
  /\ last_state_id = "s1"
  /\ default_state_id # "s1"

\* C8: a cycle whose projection succeeds and that raises no exception
\* publishes the configuration returned by optimize once and publishes the
\* transforms, whatever optimize and the validity check reported.
C8_PublishedOnce ==
  \A th \in EstThreads :
    (pc[th] = "est_finally" /\ cyc.proj = "ok" /\ ~cyc.raised)
    => /\ cyc.opt \in {"ok", "failed"}
       /\ cyc.published = <<cyc.q_estimated>>
       /\ cyc.tf

\* A cycle published although optimize failed and the configuration is in
\* collision.
C8_Witness ==
  /\ pc["req"] = "est_finally"
  /\ cyc.opt = "failed"
  /\ cyc.collision
  /\ cyc.published = <<cyc.q_estimated>>
  /\ cyc.tf

\* What C9 says of a cycle whose projection failed.
ProjectionAborted ==
  /\ cyc.opt = "none"
  /\ cyc.published = <<>>
  /\ ~cyc.tf
  /\ cyc.warned
  /\ hppConfig = cyc.q_current

C10_CycleEnds ==
  [][\A th \in EstThreads :
       (pc[th] \in CyclePositions /\ pc'[th] \notin CyclePositions)
       => /\ pc[th] = "est_finally"
          /\ pc'[th] = "idle"
          /\ ~last_stamp_is_ready'
          /\ mutex' = Free
          /\ th \notin escaped']_vars

\* A cycle has handed the sealed frame to the solver and ended with the ready
\* flag cleared, and a sensor callback has taken the mutex after it while
\* another cycle waits.
C10_Witness ==
  /\ consumed >= 1
  /\ ~last_stamp_is_ready
  /\ pc["spin"] = "idle"
  /\ pc["req"] = "est_wait"
  /\ mutex = "tag"

\* The names that a step adds to the frame that was open before it: old is
\* the open list before the step, new the list that holds the frame after it.
Appended(old, new) == SubSeq(new, Len(old) + 1, Len(new))
\* The names that the returning tag callback added to the open frame.
TagAppended ==
  IF tagMsg.stamp > current_stamp
    THEN current_visual_tag_constraints'
    ELSE Appended(current_visual_tag_constraints, current_visual_tag_constraints')
\* The names that the returning base pose callback added to the frame that
\* was open.
BaseAppended ==
  IF visual_tags_enabled
    THEN Appended(current_visual_tag_constraints, current_visual_tag_constraints')
    ELSE Appended(current_visual_tag_constraints, last_visual_tag_constraints')

\* C11: the constraint factory returns one name, of a transformation
\* constraint, for the orientation weight 1.0 and two names, of a position
\* and of a scaled orientation constraint, for every weight in [0,1); a tag
\* callback adds the two names it got and a base pose callback, which asks
\* with the weight 1.0, adds the one name it got or, when the open frame has
\* it already, nothing.
C11_FactoryNames ==
  [][/\ \A w \in Weights :
          LET names == TransformationConstraintNames(<<"", "camera">>,
                                                     <<"ns", "tag">>, "p/", w)
          IN IF w = One
               THEN names = << <<"T_", "p/", <<robot_name, "camera">>, <<"ns", "tag">> >> >>
               ELSE names = << <<"P_", "p/", <<robot_name, "camera">>, <<"ns", "tag">> >>,
                               <<"sO_", "p/", <<robot_name, "camera">>, <<"ns", "tag">> >> >>
     /\ (TagModifies /\ OrientationWeight(tagMsg.rotz) \in 0..(One - 1))
          => TagAppended =
               << <<"P_", "", <<robot_name, "camera">>, <<robot_name, tagMsg.child>> >>,
                  <<"sO_", "", <<robot_name, "camera">>, <<robot_name, tagMsg.child>> >> >>
     /\ BaseModifies
          => BaseAppended \in
               { <<>>,
                 << <<"T_", "base/", <<robot_name, "universe">>,
                      <<robot_name, "root_joint">> >> >> }]_vars

\* The open frame holds the two names of a tag detection followed by the one
\* name of a base pose.
C11_Witness ==
  /\ Len(current_visual_tag_constraints) = 3
  /\ current_visual_tag_constraints[1][1] = "P_"
  /\ current_visual_tag_constraints[2][1] = "sO_"
  /\ current_visual_tag_constraints[3][1] = "T_"
  /\ pc["tag"] = "idle"
  /\ pc["base"] = "idle"

\* C12: under every sequence of joint state messages, with the same or with
\* other joints, among the other callbacks and the cycles, the list of the
\* locked joints is not modified once it is not empty.
C12_BaselineStable ==
  [][Len(locked_joints) > 0 => locked_joints' = locked_joints]_vars

\* The baseline holds the joint of a first message, and the callback of a
\* later message with two joints has run to its end.
C12_Witness ==
  /\ locked_joints = << <<"lock_", robot_name, "j1">> >>
  /\ pc["js"] = "idle"
  /\ jsRun.name = <<"j1", "j2">>
  /\ jsRun.qjoint # NoValue
  /\ "logerr" \notin jsRun.log
  /\ "js" \notin escaped

\* C13: the orientation weight that a tag callback gives to the constraint
\* factory is not negative, whatever the orientation of the detected tag.
C13_WeightNonNegative ==
  pc["tag"] = "tag_solver" => OrientationWeight(tagMsg.rotz) >= 0

\* C14: when optimize reports a failure, an error norm above 1e-2 gives a
\* warning and no information message, a norm of at most 1e-2 gives an
\* information message and no warning; when optimize reports a success
\* neither is given.
C14_OptimizeClassified ==
  \A th \in EstThreads :
    (pc[th] \in {"est_valid", "est_tf", "est_finally"}
       /\ cyc.opt \in {"ok", "failed"})
    => /\ (cyc.opt = "failed" /\ cyc.errNorm > ErrThreshold)
            => cyc.optlog = {"logwarn"}
       /\ (cyc.opt = "failed" /\ cyc.errNorm <= ErrThreshold)
            => cyc.optlog = {"loginfo"}
       /\ cyc.opt = "ok" => cyc.optlog = {}

\* optimize failed with a norm equal to the threshold: the cycle gave the
\* information message and published the configuration.
C14_Witness ==
  /\ pc["req"] = "est_finally"
  /\ cyc.opt = "failed"
  /\ cyc.errNorm = ErrThreshold
  /\ cyc.optlog = {"loginfo"}
  /\ cyc.published = <<cyc.q_estimated>>

\* C15 as stated: for the joint j1 of size 1 with the bounds [lo, hi], a
\* position out of the bounds by at most the tolerance 1e-3 gives no warning
\* and is the value the joint is locked at; a position out of the bounds by
\* more gives a warning and the joint is locked at the bound.
C15_PassedThroughWithinTolerance ==
  LET q == jsRun.position
      lo == JointBounds[1]
      hi == JointBounds[2]
  IN jsRun.qjoint # NoValue
     => /\ (q >= lo - Tolerance /\ q <= hi + Tolerance)
             => ("logwarn" \notin jsRun.log /\ jsRun.qjoint = <<q>>)
        /\ q > hi + Tolerance
             => ("logwarn" \in jsRun.log /\ jsRun.qjoint = <<hi>>)
        /\ q < lo - Tolerance
             => ("logwarn" \in jsRun.log /\ jsRun.qjoint = <<lo>>)

\* C15 as amended: a position out of the bounds by at most the tolerance
\* gives no warning and the joint is locked at the bound, which differs from
\* the position by at most the tolerance; a position out of the bounds by
\* more gives a warning and the joint is locked at the bound; a position
\* within the bounds gives no warning and is the value the joint is locked at.
C15_ClampedWithinTolerance ==
  LET q == jsRun.position
      lo == JointBounds[1]
      hi == JointBounds[2]
  IN jsRun.qjoint # NoValue
     => /\ jsRun.qjoint = IF q > hi THEN <<hi>> ELSE IF q < lo THEN <<lo>> ELSE <<q>>
        /\ "logwarn" \in jsRun.log <=> (q > hi + Tolerance \/ q < lo - Tolerance)
        /\ "logwarn" \notin jsRun.log
             => (jsRun.qjoint[1] - q <= Tolerance /\ q - jsRun.qjoint[1] <= Tolerance)

\* A position above the upper bound by half the tolerance was locked at the
\* bound, without a warning.
C15_Witness ==
  /\ pc["js"] = "idle"
  /\ jsRun.position = JointBounds[2] + 5
  /\ jsRun.qjoint = <<JointBounds[2]>>
  /\ jsRun.log = {}

\* A step in which the thread th reads or writes the shared state: the
\* periodic loop evaluates an operand of line 105, a sensor callback makes
\* the timestamp test of line 279 or 316, a thread that holds the mutex
\* leaves its critical section.
Accesses(th) ==
  \/ th = "spin" /\ pc["spin"] \in {"idle", "spin_ready"}
       /\ pc'["spin"] # pc["spin"]
  \/ th = "tag" /\ pc["tag"] = "idle" /\ pc'["tag"] = "tag_wait"
  \/ th = "base" /\ pc["base"] = "idle" /\ pc'["base"] = "base_wait"
  \/ pc[th] \in SolverPositions \cup {"est_finally"} /\ pc'[th] = "idle"

\* C16: every read and every write of the timestamps, of the constraint
\* lists, of the two flags, of the locked joints and of the cached state is
\* made by a thread that holds the mutex.
C16_AccessUnderMutex ==
  [][/\ \A th \in Threads : Accesses(th) => mutex = th
     /\ run_continuous_estimation' # run_continuous_estimation => mutex # Free]_vars

\* C17: there is one open frame and one sealed frame, the sealed frame being
\* the frame closed by the most recent rollover; a cycle hands to the solver
\* the names of that frame and no other name, and publishes the transforms
\* with its timestamp, however many rollovers came before the cycle.
C17_LatestSealedOnly ==
  /\ last_visual_tag_constraints = sealed.names
  /\ last_stamp = sealed.stamp
  /\ \A th \in EstThreads :
       /\ pc[th] \in {"est_apply", "est_opt", "est_valid", "est_tf"}
            => cyc.frame = sealed.names
       /\ pc[th] = "est_finally" => cyc.frame \in {<<>>, sealed.names}
       /\ (pc[th] = "est_finally" /\ cyc.tf) => cyc.tf_stamp = sealed.stamp

\* Two rollovers came with no cycle between them, and the cycle that
\* followed handed the frame of the second one and published.
C17_Witness ==
  /\ rollovers = 2
  /\ pc["req"] = "est_finally"
  /\ consumed = 1
  /\ Len(sealed.names) > 0
  /\ cyc.frame = sealed.names
  /\ cyc.tf
  /\ cyc.tf_stamp = sealed.stamp
  /\ sealed.stamp > 0

\* C18: a joint state message with a joint whose configuration size is not
\* the expected one aborts its callback only: the failure is logged as an
\* error and is not raised to the caller of the callback, the mutex is
\* released and the list of the locked joints is left as it was.
C18_MismatchAbortsQuietly ==
  [][(pc["js"] = "js_solver" /\ pc'["js"] = "idle"
        /\ jsRun'.outcome = "AssertionError")
       => /\ "js" \notin escaped'
          /\ "logerr" \in jsRun'.log
          /\ mutex' = Free
          /\ locked_joints' = locked_joints]_vars

\* The name of the base pose constraint.
BasePoseName ==
  <<"T_", "base/", <<robot_name, "universe">>, <<robot_name, "root_joint">> >>
\* Occurrences of the name n in the list s.
Count(n, s) == Cardinality({i \in 1..Len(s) : s[i] = n})

\* C19: with the visual tags enabled, a base pose callback, whatever its
\* timestamp, leaves current_stamp, last_stamp, the sealed list and the ready
\* flag as they are; it adds the base pose name to the open list when the
\* list does not hold it, and nothing else, so that the open list holds the
\* name once at most.
C19_BaseNeverSeals ==
  [][(pc["base"] = "base_solver" /\ pc'["base"] = "idle" /\ visual_tags_enabled)
       => /\ UNCHANGED <<current_stamp, last_stamp, last_visual_tag_constraints,
                         last_stamp_is_ready>>
          /\ \/ current_visual_tag_constraints' = current_visual_tag_constraints
             \/ /\ BasePoseName \notin Range(current_visual_tag_constraints)
                /\ current_visual_tag_constraints' =
                     Append(current_visual_tag_constraints, BasePoseName)
          /\ Count(BasePoseName, current_visual_tag_constraints') <= 1]_vars

\* With the visual tags enabled, the open frame holds the name added by a
\* base pose callback, and the callback of a base pose message with a later
\* timestamp than the open frame's is in its critical section.
C19_Witness ==
  /\ visual_tags_enabled
  /\ pc["base"] = "base_solver"
  /\ baseMsg.stamp > current_stamp
  /\ BasePoseName \in Range(current_visual_tag_constraints)

\* C20: the periodic loop starts a cycle, by its call of estimation(), only
\* when continuous estimation is enabled and the ready flag is set; while
\* continuous estimation is disabled the loop starts no cycle.
C20_SpinStartsWhenEnabledAndReady ==
  [][(pc["spin"] # "est_wait" /\ pc'["spin"] = "est_wait")
       => (run_continuous_estimation /\ last_stamp_is_ready)]_vars

====
